---- MODULE Spec2Model ----
(***************************************************************************)
(* Tree dimension estimation: AdvancedTreeMeasurer.calculate_dimensions    *)
(* (utils/advanced_tree_measurer.py) and                                   *)
(* TreeDimensionCalculator.calculate_tree_dimensions                       *)
(* (utils/tree_dimension_calculator.py), reached through                   *)
(* utils/image_processing.calculate_tree_dimensions.                       *)
(*                                                                         *)
(* Numbers are exact rationals [n, d] with d > 0 in lowest terms; the      *)
(* float NaN is [n |-> 0, d |-> 0].  None is the empty tuple << >> and a   *)
(* present value v is << v >>.                                             *)
(***************************************************************************)
EXTENDS Integers, Sequences, FiniteSets, TLC

(***************************************************************************)
(* Bounds of the model.                                                    *)
(***************************************************************************)
\* longest list of boxes that the cascade detectors report for one frame
MaxDetections == 2

\* most contours that the green mask of one frame yields
MaxContours == 2

MaxImages == 2

(***************************************************************************)
(* Float arithmetic.                                                       *)
(***************************************************************************)
Abs(x) == IF x < 0 THEN -x ELSE x

RECURSIVE GCD(_, _)
GCD(a, b) == IF b = 0 THEN a ELSE GCD(b, a % b)

\* the float n/d, d # 0
R(n, d) ==
    LET g == GCD(Abs(n), Abs(d))
        s == IF d < 0 THEN -1 ELSE 1
    IN  [n |-> s * (n \div g), d |-> s * (d \div g)]

NaN == [n |-> 0, d |-> 0]

IsNaN(x) == x.d = 0

\* bool(x) of a float: 0.0 is falsy, every other float (NaN too) is truthy
Truthy(x) == IsNaN(x) \/ x.n # 0

FMul(a, b) ==
    IF IsNaN(a) \/ IsNaN(b) THEN NaN
    ELSE LET p == R(a.n, b.d)
             q == R(b.n, a.d)
         IN  R(p.n * q.n, p.d * q.d)

\* a / b for b # 0 (a zero divisor raises ZeroDivisionError: see the callers)
FDiv(a, b) ==
    IF IsNaN(a) \/ IsNaN(b) THEN NaN
    ELSE FMul(a, R(b.d, b.n))

FAdd(a, b) ==
    IF IsNaN(a) \/ IsNaN(b) THEN NaN
    ELSE R(a.n * b.d + b.n * a.d, a.d * b.d)

\* exact comparison of n1/d1 with n2/d2: whole parts first, then remainders
Less(a, b) ==
    LET wa == a.n \div a.d
        wb == b.n \div b.d
    IN  wa < wb \/ (wa = wb /\ (a.n % a.d) * b.d < (b.n % b.d) * a.d)

\* a < b; every comparison with NaN is False
FLt(a, b) == ~IsNaN(a) /\ ~IsNaN(b) /\ Less(a, b)

FLe(a, b) == ~IsNaN(a) /\ ~IsNaN(b) /\ ~Less(b, a)

\* Python's max(a, b) and min(a, b): the first argument unless the second beats it
PyMax(a, b) == IF FLt(a, b) THEN b ELSE a

PyMin(a, b) == IF FLt(b, a) THEN b ELSE a

\* np.clip(x, lo, hi): NaN stays NaN
NpClip(x, lo, hi) ==
    IF IsNaN(x) THEN NaN
    ELSE IF FLt(x, lo) THEN lo
    ELSE IF FLt(hi, x) THEN hi
    ELSE x

\* round(x, 2): to the nearest hundredth, halves to even
Round2(x) ==
    IF IsNaN(x) THEN NaN
    ELSE LET c == x.n * 100
             q == c \div x.d
             r == c % x.d
             up == 2 * r > x.d \/ (2 * r = x.d /\ q % 2 = 1)
         IN  R(IF up THEN q + 1 ELSE q, 100)

(***************************************************************************)
(* Construction of the two calculators.                                    *)
(***************************************************************************)
\* the cascade files found on disk, for the installations tried
Installations ==
    { {},
      {"haarcascade_fullbody.xml"},
      {"cars.xml", "fullbody.xml", "haarcascade_car.xml"},
      {"bicycle.xml", "bench.xml", "haarcascade_car.xml", "haarcascade_fullbody.xml"},
      {"cars.xml", "fullbody.xml", "bicycle.xml", "bench.xml",
       "haarcascade_car.xml", "haarcascade_fullbody.xml"} }

\* _load_cascade: a classifier (TRUE) when the file exists, else None (FALSE)
load_cascade(files, filename) == filename \in files

\* AdvancedTreeMeasurer.__init__; reference_objects in the dict's insertion order
NewMeasurer(files) ==
    [min_tree_height |-> R(1, 1),
     max_tree_height |-> R(60, 1),
     min_tree_width |-> R(3, 10),
     max_tree_width |-> R(12, 1),
     tree_seg_model |-> FALSE,
     depth_est_model |-> FALSE,
     reference_objects |->
        << [type |-> "car", height |-> R(15, 10), width |-> R(18, 10),
            detector |-> load_cascade(files, "cars.xml")],
           [type |-> "person", height |-> R(17, 10), width |-> R(5, 10),
            detector |-> load_cascade(files, "fullbody.xml")],
           [type |-> "bicycle", height |-> R(11, 10), width |-> R(6, 10),
            detector |-> load_cascade(files, "bicycle.xml")],
           [type |-> "bench", height |-> R(9, 10), width |-> R(15, 10),
            detector |-> load_cascade(files, "bench.xml")] >>,
     default_sensor_width |-> R(617, 100),
     default_focal_length |-> R(42, 10)]

\* TreeDimensionCalculator.__init__
NewTreeCalculator(files) ==
    [car_cascade |-> load_cascade(files, "haarcascade_car.xml"),
     person_cascade |-> load_cascade(files, "haarcascade_fullbody.xml")]

(***************************************************************************)
(* What the environment can hand to one call: the decoded frame, the EXIF  *)
(* block, the contours of the green mask and the boxes the cascades report.*)
(***************************************************************************)
\* image.shape[:2] = (height, width) of the frames tried
Shapes == {<<1500, 1000>>, <<2400, 1600>>}

\* a decoded frame; annotated becomes TRUE once something was drawn on it
Frame(shape) == [height |-> shape[1], width |-> shape[2], annotated |-> FALSE]

\* raw EXIF values: a rational n/d as PIL's IFDRational (d = 0 converts to
\* NaN), or a value float() rejects
Rational(n, d) == [numeric |-> TRUE, n |-> n, d |-> d]

NonNumeric == [numeric |-> FALSE, n |-> 0, d |-> 0]

FocalLengthTags == {Rational(4, 1), Rational(0, 1), Rational(0, 0), NonNumeric}

OrientationTags == {1, 2, 3, 6, 8}

\* the EXIF mapping with the given optional tags (<< >> absent, << v >> present)
Exif(focal, orientation) ==
    [k \in (IF focal = << >> THEN {} ELSE {"FocalLength"})
           \cup (IF orientation = << >> THEN {} ELSE {"Orientation"}) |->
        IF k = "FocalLength" THEN focal[1] ELSE orientation[1]]

Optional(S) == {<< >>} \cup {<<v>> : v \in S}

\* an image file as PIL sees it: whether Image.open succeeds, and its EXIF
ImageFile(opens, exif) == [opens |-> opens, exif |-> exif]

ExifBlocks == {Exif(f, o) : f \in Optional(FocalLengthTags), o \in Optional(OrientationTags)}

\* exif with one more tag
ExifWith(exif, key, value) ==
    [k \in DOMAIN exif \cup {key} |-> IF k = key THEN value ELSE exif[k]]

\* GPS coordinates as EXIF stores them: three rationals (degrees, minutes,
\* seconds); also a value of two, an entry that is no number, the empty value
Dms(d, m, s) == <<Rational(d, 1), Rational(m, 1), Rational(s, 1)>>

LatitudeTags ==
    { Dms(33, 52, 30), Dms(0, 0, 0), <<Rational(33, 1), Rational(52, 1)>>,
      <<Rational(33, 1), NonNumeric, Rational(0, 1)>>, << >> }

LongitudeTags == { Dms(151, 12, 0), <<Rational(151, 1), Rational(12, 1)>>, << >> }

\* the GPSInfo value: a dict of GPS tags (1 GPSLatitudeRef, 2 GPSLatitude,
\* 3 GPSLongitudeRef, 4 GPSLongitude, 6 GPSAltitude), or something else (the
\* IFD offset older PIL versions hand out)
GpsInfo(lat_ref, lat, lon_ref, lon, alt) ==
    [dict |-> TRUE, lat_ref |-> lat_ref, lat |-> lat, lon_ref |-> lon_ref, lon |-> lon,
     alt |-> alt]

NotADict ==
    [dict |-> FALSE, lat_ref |-> << >>, lat |-> << >>, lon_ref |-> << >>, lon |-> << >>,
     alt |-> << >>]

GpsInfoTags ==
    {NotADict} \cup
    { GpsInfo(lat_ref, lat, lon_ref, lon, alt) :
        lat_ref \in Optional({"N", "S"}), lat \in Optional(LatitudeTags),
        lon_ref \in Optional({"E", "W"}), lon \in Optional(LongitudeTags),
        alt \in Optional({Rational(120, 1)}) }

\* EXIF blocks with a GPSInfo tag
GpsExifBlocks ==
    { ExifWith(Exif(f, << >>), "GPSInfo", g) :
        f \in Optional({Rational(4, 1), NonNumeric}), g \in GpsInfoTags }

\* EXIF blocks with the focal-plane tags
FocalPlaneBlocks ==
    { ExifWith(ExifWith(Exif(f, << >>), "FocalPlaneResolutionUnit", Rational(2, 1)),
               "FocalPlaneXResolution", x) :
        f \in Optional(FocalLengthTags),
        x \in {Rational(1000, 1), Rational(0, 1), Rational(0, 0), NonNumeric} }

\* the files the metadata readers are given
ImageFiles ==
    {ImageFile(FALSE, Exif(<< >>, << >>))}
    \cup {ImageFile(TRUE, e) : e \in ExifBlocks \cup GpsExifBlocks}

\* contours of the green mask: bounding rectangle, area and convex hull area
Contour(x, y, w, h, area, hull) ==
    [x |-> x, y |-> y, w |-> w, h |-> h, area |-> area, hull_area |-> hull]

ContourChoices ==
    { Contour(50, 40, 1100, 2200, 1500000, 2000000),
      Contour(100, 50, 500, 1000, 300000, 400000),
      Contour(10, 10, 20, 50, 800, 1000),
      Contour(5, 5, 600, 300, 150000, 200000),
      Contour(5, 5, 300, 600, 150000, 200000) }

\* boxes a cascade may report (any aspect ratio; validation comes later)
Box(type, x, y, w, h) == [type |-> type, x |-> x, y |-> y, w |-> w, h |-> h]

BoxChoices ==
    { Box("car", 300, 900, 200, 160),
      Box("car", 20, 20, 100, 300),
      Box("person", 700, 800, 30, 100),
      Box("bicycle", 500, 900, 60, 110),
      Box("bench", 100, 1000, 50, 30) }

\* all lists of at most n elements of S
RECURSIVE SeqsUpTo(_, _)
SeqsUpTo(S, n) ==
    IF n = 0 THEN {<< >>}
    ELSE LET shorter == SeqsUpTo(S, n - 1)
         IN  shorter \cup {Append(s, e) : s \in {t \in shorter : Len(t) = n - 1}, e \in S}

(***************************************************************************)
(* AdvancedTreeMeasurer: the methods calculate_dimensions calls.           *)
(***************************************************************************)
Num(i) == R(i, 1)

\* float(v) of an EXIF rational
ToFloat(v) == IF v.d = 0 THEN NaN ELSE R(v.n, v.d)

EmptyMetadata == << >>

\* the outcome of a computation that may raise
Value(v) == [raised |-> FALSE, value |-> v]

Raise == [raised |-> TRUE, value |-> NaN]

\* -x
FNeg(x) == IF IsNaN(x) THEN NaN ELSE R(-x.n, x.d)

\* _convert_to_degrees(gps_info.get(tag)): None for a missing or empty value;
\* unpacking anything but three numbers raises
_convert_to_degrees(value) ==
    IF value = << >> THEN Value(<< >>)
    ELSE IF value[1] = << >> THEN Value(<< >>)
    ELSE IF Len(value[1]) # 3 THEN Raise
    ELSE IF \E i \in 1..3 : ~value[1][i].numeric THEN Raise
    ELSE LET d == ToFloat(value[1][1])
             m == ToFloat(value[1][2])
             s == ToFloat(value[1][3])
         IN  Value(<<FAdd(FAdd(d, FDiv(m, Num(60))), FDiv(s, Num(3600)))>>)

\* _extract_gps_info: None (<< >>) on any exception
_extract_gps_info(gps_info) ==
    IF ~gps_info.dict THEN << >>
    ELSE LET lat == _convert_to_degrees(gps_info.lat)
             lon == _convert_to_degrees(gps_info.lon)
         IN  IF lat.raised \/ lon.raised THEN << >>
             ELSE <<[latitude |-> lat.value, longitude |-> lon.value,
                     altitude |-> gps_info.alt]>>

\* lines 60-75 of get_metadata: the statements inside its try
ExtractedMetadata(file) ==
    IF ~file.opens THEN Raise
    ELSE IF "FocalLength" \in DOMAIN file.exif /\ ~file.exif["FocalLength"].numeric
    THEN Raise
    ELSE Value([k \in DOMAIN file.exif
                      \cup (IF "GPSInfo" \in DOMAIN file.exif THEN {"GPS"} ELSE {}) |->
                  IF k = "FocalLength" THEN ToFloat(file.exif[k])
                  ELSE IF k = "GPS" THEN _extract_gps_info(file.exif["GPSInfo"])
                  ELSE file.exif[k]])

\* get_metadata without its except clause
get_metadata_Unguarded(file) == ExtractedMetadata(file)

\* get_metadata(image_path): any exception inside gives {}
get_metadata_of(file) ==
    IF ExtractedMetadata(file).raised THEN Value(EmptyMetadata)
    ELSE ExtractedMetadata(file)

\* get_metadata for a file PIL can open, by its EXIF block
get_metadata(exif) == get_metadata_of(ImageFile(TRUE, exif)).value

\* metadata.get(key, default)
Get(metadata, key, default) ==
    IF key \in DOMAIN metadata THEN metadata[key] ELSE default

\* the aspect-ratio validation of one reported box
ValidAspect(params, b) ==
    LET aspect_ratio == R(b.w, b.h)
        expected_ratio == FDiv(params.width, params.height)
    IN  /\ FLt(FMul(R(7, 10), expected_ratio), aspect_ratio)
        /\ FLt(aspect_ratio, FMul(R(13, 10), expected_ratio))

DetectedObject(params, b) ==
    [type |-> params.type, x |-> b.x, y |-> b.y,
     width_px |-> b.w, height_px |-> b.h,
     real_width |-> params.width, real_height |-> params.height,
     aspect_ratio |-> R(b.w, b.h)]

RECURSIVE AsObjects(_, _)
AsObjects(params, boxes) ==
    IF boxes = << >> THEN << >>
    ELSE <<DetectedObject(params, Head(boxes))>> \o AsObjects(params, Tail(boxes))

\* the objects kept for one registry entry; reported is everything the
\* cascades would report for the frame
DetectedOfType(params, reported) ==
    LET Mine(b) == b.type = params.type
        Keep(b) == ValidAspect(params, b)
    IN  IF ~params.detector THEN << >>
        ELSE AsObjects(params, SelectSeq(SelectSeq(reported, Mine), Keep))

RECURSIVE DetectFrom(_, _, _)
DetectFrom(registry, i, reported) ==
    IF i > Len(registry) THEN << >>
    ELSE DetectedOfType(registry[i], reported) \o DetectFrom(registry, i + 1, reported)

\* detection that gives up as soon as one cascade is missing
detect_reference_objects_AllOrNothing(self, reported) ==
    IF \E i \in 1..Len(self.reference_objects) : ~self.reference_objects[i].detector
    THEN << >>
    ELSE DetectFrom(self.reference_objects, 1, reported)

\* detect_reference_objects, lines 179-214
detect_reference_objects(self, reported) ==
    DetectFrom(self.reference_objects, 1, reported)

Candidate(px_per_m, method, confidence) ==
    [px_per_m |-> px_per_m, method |-> method, confidence |-> confidence]

\* the reference scale taken from the object's height alone
ReferenceCandidate_HeightOnly(obj) ==
    Candidate(FDiv(Num(obj.height_px), obj.real_height),
              "Reference (" \o obj.type \o ")",
              IF obj.type \in {"car", "person"} THEN R(9, 10) ELSE R(7, 10))

\* the high confidence given to cars only
ReferenceCandidate_CarOnly(obj) ==
    LET px_per_m_h == FDiv(Num(obj.height_px), obj.real_height)
        px_per_m_w == FDiv(Num(obj.width_px), obj.real_width)
    IN  Candidate(FDiv(FAdd(px_per_m_h, px_per_m_w), Num(2)),
                  "Reference (" \o obj.type \o ")",
                  IF obj.type = "car" THEN R(9, 10) ELSE R(7, 10))

\* Method 1: one candidate per reference object
ReferenceCandidate(obj) ==
    LET px_per_m_h == FDiv(Num(obj.height_px), obj.real_height)
        px_per_m_w == FDiv(Num(obj.width_px), obj.real_width)
        avg_px_per_m == FDiv(FAdd(px_per_m_h, px_per_m_w), Num(2))
    IN  Candidate(avg_px_per_m,
                  "Reference (" \o obj.type \o ")",
                  IF obj.type \in {"car", "person"} THEN R(9, 10) ELSE R(7, 10))

RECURSIVE ReferenceCandidates(_)
ReferenceCandidates(ref_objects) ==
    IF ref_objects = << >> THEN << >>
    ELSE <<ReferenceCandidate(Head(ref_objects))>> \o ReferenceCandidates(Tail(ref_objects))

RECURSIVE Sum(_)
Sum(xs) == IF xs = << >> THEN Num(0) ELSE FAdd(Head(xs), Sum(Tail(xs)))

\* metadata.get('FocalLength') is truthy
HasFocalLength(metadata) ==
    "FocalLength" \in DOMAIN metadata /\ Truthy(metadata["FocalLength"])

\* focal_length_px, assigned only inside the camera-geometry branch
FocalLengthPx(self, image, metadata) ==
    LET focal_length_mm == metadata["FocalLength"]
        sensor_width_mm == Get(metadata, "SensorWidth", self.default_sensor_width)
    IN  FDiv(FMul(Num(image.width), focal_length_mm), sensor_width_mm)

\* Method 2: camera geometry
CameraCandidates(self, image, tree_contour, metadata, ref_objects) ==
    IF ~HasFocalLength(metadata) THEN << >>
    ELSE LET focal_length_px == FocalLengthPx(self, image, metadata)
             distance_estimates ==
                IF tree_contour = << >> THEN << >>
                ELSE LET avg_tree_size_px == R(tree_contour[1].w + tree_contour[1].h, 2)
                     IN  <<FDiv(FMul(Num(15), focal_length_px), avg_tree_size_px)>>
         IN  IF distance_estimates = << >> THEN << >>
             ELSE LET avg_distance == FDiv(Sum(distance_estimates),
                                           Num(Len(distance_estimates)))
                      px_per_m == FDiv(focal_length_px, avg_distance)
                  IN  <<Candidate(px_per_m, "Camera geometry",
                                  IF Len(distance_estimates) > 1 THEN R(8, 10) ELSE R(6, 10))>>

\* estimate_depth: the placeholder returns None (otherwise << average depth
\* over the tree mask >>)
estimate_depth(image) == << >>

\* Method 3: depth estimation, entered when a depth model is loaded; without
\* focal_length_px the NameError is caught and no candidate is added
DepthCandidates(self, image, metadata) ==
    LET depth_map == estimate_depth(image)
    IN  IF self.depth_est_model /\ depth_map # << >> /\ HasFocalLength(metadata)
        THEN <<Candidate(FDiv(FocalLengthPx(self, image, metadata), depth_map[1]),
                         "Depth estimation", R(85, 100))>>
        ELSE << >>

\* the fallback scaled by the frame's width instead of its height
FallbackCandidate_Width(image) ==
    Candidate(FDiv(Num(image.width), Num(15)), "Fallback estimation", R(4, 10))

\* Method 4: fallback
FallbackCandidate(image) ==
    Candidate(FDiv(Num(image.height), Num(15)), "Fallback estimation", R(4, 10))

\* max(methods, key=confidence): the first of the most confident
RECURSIVE MaxByConfidence(_, _, _)
MaxByConfidence(methods, i, best) ==
    IF i > Len(methods) THEN best
    ELSE MaxByConfidence(methods, i + 1,
            IF FLt(best.confidence, methods[i].confidence) THEN methods[i] ELSE best)

Methods(self, image, tree_contour, metadata, ref_objects) ==
    ReferenceCandidates(ref_objects)
    \o CameraCandidates(self, image, tree_contour, metadata, ref_objects)
    \o DepthCandidates(self, image, metadata)
    \o <<FallbackCandidate(image)>>

\* the selection with the comparison reversed: the least confident candidate
RECURSIVE MinByConfidence(_, _, _)
MinByConfidence(methods, i, best) ==
    IF i > Len(methods) THEN best
    ELSE MinByConfidence(methods, i + 1,
            IF FLt(methods[i].confidence, best.confidence) THEN methods[i] ELSE best)

SelectBest_Least(methods) == MinByConfidence(methods, 2, methods[1])

SelectBest(methods) == MaxByConfidence(methods, 2, methods[1])

\* the correction with the other calculator's factors for orientation 3
apply_perspective_correction_Swapped(height, width, orientation) ==
    IF orientation \in {6, 8}
    THEN <<FMul(height, R(11, 10)), FMul(width, R(9, 10))>>
    ELSE IF orientation = 3
    THEN <<FMul(height, R(9, 10)), FMul(width, R(11, 10))>>
    ELSE <<height, width>>

\* apply_perspective_correction
apply_perspective_correction(height, width, orientation) ==
    LET factors ==
          IF orientation = 1 THEN <<R(1, 1), R(1, 1)>>
          ELSE IF orientation = 3 THEN <<R(95, 100), R(105, 100)>>
          ELSE IF orientation \in {6, 8} THEN <<R(11, 10), R(9, 10)>>
          ELSE <<R(1, 1), R(1, 1)>>
    IN  <<FMul(height, factors[1]), FMul(width, factors[2])>>

\* segment_tree: the score of one contour of the mask
Score(c) ==
    LET aspect_ratio == R(c.w, c.h)
        solidity == IF c.hull_area > 0 THEN R(c.area, c.hull_area) ELSE Num(0)
        diff == FAdd(aspect_ratio, R(-3, 10))
        dist == IF diff.n < 0 THEN R(-diff.n, diff.d) ELSE diff
        closeness == FAdd(Num(1), FMul(Num(-1), PyMin(dist, R(7, 10))))
    IN  FAdd(FAdd(FMul(Num(c.area), R(5, 10)), FMul(closeness, R(3, 10))),
             FMul(solidity, R(2, 10)))

RECURSIVE MaxByScore(_, _, _)
MaxByScore(contours, i, best) ==
    IF i > Len(contours) THEN best
    ELSE MaxByScore(contours, i + 1,
            IF FLt(Score(best), Score(contours[i])) THEN contours[i] ELSE best)

\* segment_tree, given the contours of the green mask
segment_tree(contours) ==
    IF contours = << >> THEN << >>
    ELSE <<MaxByScore(contours, 2, contours[1])>>

\* lines 305-313: the division by the scale
Divided(tree_contour, px_per_m) ==
    [height_m |-> FDiv(Num(tree_contour.h), px_per_m),
     width_m |-> FDiv(Num(tree_contour.w), px_per_m)]

\* the correction applied with a default orientation when the field is absent
Corrected_Default(dims, metadata) ==
    LET c == apply_perspective_correction(dims.height_m, dims.width_m,
                                          Get(metadata, "Orientation", 6))
    IN  [height_m |-> c[1], width_m |-> c[2]]

\* lines 309-313: perspective correction only when Orientation is in metadata
Corrected(dims, metadata) ==
    IF "Orientation" \in DOMAIN metadata
    THEN LET c == apply_perspective_correction(dims.height_m, dims.width_m,
                                               metadata["Orientation"])
         IN  [height_m |-> c[1], width_m |-> c[2]]
    ELSE dims

\* lines 315-317: the final validation
Clipped(self, dims) ==
    [height_m |-> NpClip(dims.height_m, self.min_tree_height, self.max_tree_height),
     width_m |-> NpClip(dims.width_m, self.min_tree_width, self.max_tree_width)]

\* the output record without its bounding box
PreparedResult_NoBox(dims, best, tree_contour) ==
    [height_m |-> Round2(dims.height_m),
     width_m |-> Round2(dims.width_m),
     method |-> best.method,
     confidence |-> Round2(best.confidence)]

\* lines 319-326: the output record
PreparedResult(dims, best, tree_contour) ==
    [height_m |-> Round2(dims.height_m),
     width_m |-> Round2(dims.width_m),
     method |-> best.method,
     confidence |-> Round2(best.confidence),
     bounding_box |-> [x |-> tree_contour.x, y |-> tree_contour.y,
                       width |-> tree_contour.w, height |-> tree_contour.h]]

\* calculate_pixels_per_meter, given what the cascades report for the frame
calculate_pixels_per_meter(self, image, tree_contour, metadata, reported) ==
    SelectBest(Methods(self, image, tree_contour, metadata,
                       detect_reference_objects(self, reported)))

\* visualize_results draws on the frame it is given
Annotated(frame) == [frame EXCEPT !.annotated = TRUE]

(***************************************************************************)
(* TreeDimensionCalculator: the methods calculate_tree_dimensions calls.   *)
(***************************************************************************)
\* get_image_metadata(image_path): the EXIF mapping as read, {} when there is
\* none or when Image.open or _getexif raises
get_image_metadata_of(file) ==
    IF ~file.opens THEN Value(EmptyMetadata) ELSE Value(file.exif)

\* get_image_metadata for a file PIL can open, by its EXIF block
get_image_metadata(exif) == get_image_metadata_of(ImageFile(TRUE, exif)).value

\* calculate_focal_length_pixels: KeyError gives the smartphone defaults, any
\* other exception (of float(), or the division by a zero resolution or
\* sensor width) leaves the function
calculate_focal_length_pixels(metadata, image_width) ==
    IF "FocalLength" \notin DOMAIN metadata
    THEN Value(FDiv(FMul(Num(image_width), R(42, 10)), R(617, 100)))
    ELSE IF ~metadata["FocalLength"].numeric THEN Raise
    ELSE LET focal_length_mm == ToFloat(metadata["FocalLength"])
             measured == /\ "FocalPlaneResolutionUnit" \in DOMAIN metadata
                         /\ "FocalPlaneXResolution" \in DOMAIN metadata
             unit_mm == ToFloat(metadata["FocalPlaneResolutionUnit"])
             resolution == ToFloat(metadata["FocalPlaneXResolution"])
             sensor_width_mm ==
                 IF measured THEN FDiv(FMul(Num(image_width), unit_mm), resolution)
                 ELSE Num(36)
         IN  IF measured /\ ( \/ ~metadata["FocalPlaneResolutionUnit"].numeric
                              \/ ~metadata["FocalPlaneXResolution"].numeric
                              \/ ~Truthy(resolution) )
             THEN Raise
             ELSE IF ~Truthy(sensor_width_mm) THEN Raise
             ELSE Value(FDiv(FMul(Num(image_width), focal_length_mm), sensor_width_mm))

RECURSIVE MaxByArea(_, _, _)
MaxByArea(contours, i, largest) ==
    IF i > Len(contours) THEN largest
    ELSE MaxByArea(contours, i + 1,
            IF largest.area < contours[i].area THEN contours[i] ELSE largest)

\* improved_tree_segmentation, given the contours of the green mask
improved_tree_segmentation(contours) ==
    IF contours = << >> THEN << >>
    ELSE <<MaxByArea(contours, 2, contours[1])>>

\* detect_reference_object: the first car, else the first person, else None
detect_reference_object(self, reported) ==
    LET IsCar(b) == b.type = "car"
        IsPerson(b) == b.type = "person"
        cars == IF self.car_cascade THEN SelectSeq(reported, IsCar) ELSE << >>
        people == IF self.person_cascade THEN SelectSeq(reported, IsPerson) ELSE << >>
    IN  IF Len(cars) > 0
        THEN <<[type |-> "car", width_px |-> cars[1].w, height_px |-> cars[1].h,
                real_width |-> R(18, 10), real_height |-> R(15, 10)]>>
        ELSE IF Len(people) > 0
        THEN <<[type |-> "person", width_px |-> people[1].w, height_px |-> people[1].h,
                real_width |-> R(5, 10), real_height |-> R(17, 10)]>>
        ELSE << >>

\* math.tan(math.radians(30)) = 0.57735...
Tan30 == R(57735, 100000)

\* lines 164-178: px_per_meter and method; 0.0 / 0.0 raises ZeroDivisionError
TreeScale(reference, metadata, focal_length_px, h, img_height) ==
    IF reference # << >>
    THEN Value([px_per_m |-> FDiv(Num(reference[1].height_px), reference[1].real_height),
                method |-> "Reference object (" \o reference[1].type \o ")"])
    ELSE IF "FocalLength" \in DOMAIN metadata
    THEN LET numerator == FMul(Num(h), focal_length_px)
             distance_estimate == FDiv(numerator, FMul(Num(h), Tan30))
         IN  IF ~IsNaN(distance_estimate) /\ distance_estimate.n = 0 THEN Raise
             ELSE Value([px_per_m |-> FDiv(focal_length_px, distance_estimate),
                         method |-> "Camera geometry estimation"])
    ELSE Value([px_per_m |-> FDiv(Num(img_height), Num(15)),
                method |-> "Fallback estimation"])

\* TreeDimensionCalculator.apply_perspective_correction
tree_apply_perspective_correction(height_m, width_m, orientation) ==
    IF orientation \in {6, 8}
    THEN <<FMul(height_m, R(11, 10)), FMul(width_m, R(9, 10))>>
    ELSE IF orientation = 3
    THEN <<FMul(height_m, R(9, 10)), FMul(width_m, R(11, 10))>>
    ELSE <<height_m, width_m>>

\* lines 183-187
TreeCorrected(dims, metadata) ==
    IF "Orientation" \in DOMAIN metadata
    THEN LET c == tree_apply_perspective_correction(dims.height_m, dims.width_m,
                                                    metadata["Orientation"])
         IN  [height_m |-> c[1], width_m |-> c[2]]
    ELSE dims

\* lines 189-191: the sanity checks
TreeClipped(dims) ==
    [height_m |-> PyMax(Num(1), PyMin(Num(50), dims.height_m)),
     width_m |-> PyMax(R(5, 10), PyMin(Num(15), dims.width_m))]

(***************************************************************************)
(* geolocation: the GPS position the driver stores with a result.          *)
(***************************************************************************)
\* get_exif_data: None (<< >>) without EXIF or on any exception
get_exif_data(file) ==
    IF ~file.opens \/ DOMAIN file.exif = {} THEN << >> ELSE <<file.exif>>

\* convert_to_degrees: None (<< >>) on any exception
convert_to_degrees(value) ==
    IF Len(value) < 3 THEN << >>
    ELSE IF \E i \in 1..3 : ~value[i].numeric THEN << >>
    ELSE LET d == ToFloat(value[1])
             m == ToFloat(value[2])
             s == ToFloat(value[3])
         IN  <<FAdd(FAdd(d, FDiv(m, Num(60))), FDiv(s, Num(3600)))>>

NoCoordinates == [latitude |-> << >>, longitude |-> << >>]

\* get_gps_coordinates: (lat, lon) in signed decimal degrees, or (None, None)
get_gps_coordinates(exif_data) ==
    IF exif_data = << >> THEN NoCoordinates
    ELSE IF "GPSInfo" \notin DOMAIN exif_data[1] THEN NoCoordinates
    ELSE LET gps_info == exif_data[1]["GPSInfo"]
             lat == gps_info.lat
             lon == gps_info.lon
         IN  IF ~gps_info.dict THEN NoCoordinates
             ELSE IF lat = << >> \/ lon = << >> THEN NoCoordinates
             ELSE IF lat[1] = << >> \/ lon[1] = << >> THEN NoCoordinates
             ELSE LET lat_deg == convert_to_degrees(lat[1])
                      lon_deg == convert_to_degrees(lon[1])
                  IN  IF lat_deg = << >> \/ lon_deg = << >> THEN NoCoordinates
                      ELSE [latitude |->
                                IF gps_info.lat_ref = <<"S">> THEN <<FNeg(lat_deg[1])>>
                                ELSE lat_deg,
                            longitude |->
                                IF gps_info.lon_ref = <<"W">> THEN <<FNeg(lon_deg[1])>>
                                ELSE lon_deg]

(***************************************************************************)
(* State.                                                                  *)
(***************************************************************************)
VARIABLES
    measurer,         \* the AdvancedTreeMeasurer object
    tree_calculator,  \* image_processing.tree_calculator
    call,             \* the function running: "none", "adv" or "tdc"
    pc,               \* the statement it is at
    image,            \* locals of the running call (<< >> while unset)
    metadata,
    focal_length_px,
    tree_contour,
    ref_objects,
    methods,
    best,
    divided,          \* height_m, width_m after the division by the scale
    corrected,        \* ... after the perspective correction (what is clamped)
    clipped,          \* ... after the final validation
    result,
    returned,         \* what the caller received: << >> is None / (None, None)
    steps,            \* the pipeline stages that ran in this call
    unit,             \* the function exercised on its own ("none" if none)
    unit_in,          \* its arguments
    unit_out,         \* what it returned
    remembered,       \* an earlier call of it: its arguments and what it returned
    run_pc,           \* driver_script: where the run is ("idle", "loop", "done")
    use_cache,        \* the --use-cache option of this run
    image_files,      \* the image directory: path :> modification time
    db,               \* tree_analysis: path :> the row stored for it
    todo,             \* the images process_tree_images has still to visit
    processed         \* the images it analysed in this run, in order

locals == <<image, metadata, focal_length_px, tree_contour, ref_objects, methods, best, divided, corrected, clipped, result>>

vars == <<measurer, tree_calculator, call, pc, image, metadata, focal_length_px,
          tree_contour,
          ref_objects, methods, best, divided, corrected, clipped, result, returned, steps,
          unit, unit_in, unit_out, remembered,
          run_pc, use_cache, image_files, db, todo, processed>>

objects == <<measurer, tree_calculator>>

units == <<unit, unit_in, unit_out, remembered>>

run == <<run_pc, use_cache, image_files, db, todo, processed>>

others == <<units, run>>

\* no call of either pipeline is running
NoCall ==
    /\ call = "none"
    /\ pc = "idle"
    /\ image = << >>
    /\ metadata = EmptyMetadata
    /\ focal_length_px = << >>
    /\ tree_contour = << >>
    /\ ref_objects = << >>
    /\ methods = << >>
    /\ best = << >>
    /\ divided = << >>
    /\ corrected = << >>
    /\ clipped = << >>
    /\ result = << >>
    /\ returned = << >>
    /\ steps = {}

\* no function is being exercised on its own
NoUnit ==
    /\ unit = "none"
    /\ unit_in = << >>
    /\ unit_out = << >>
    /\ remembered = << >>

\* process_tree_images is not running
NoRun ==
    /\ run_pc = "idle"
    /\ use_cache = FALSE
    /\ image_files = << >>
    /\ db = << >>
    /\ todo = << >>
    /\ processed = << >>

Init ==
    /\ \E installed \in Installations :
          /\ measurer = NewMeasurer(installed)
          /\ tree_calculator = NewTreeCalculator(installed)
    /\ NoCall
    /\ NoUnit
    /\ NoRun

\* the frame-fitting part of what the environment can report
Fits(x, y, w, h, frame) == x + w <= frame.width /\ y + h <= frame.height

ContoursIn(frame) ==
    SeqsUpTo({c \in ContourChoices : Fits(c.x, c.y, c.w, c.h, frame)}, MaxContours)

ReportsIn(frame) ==
    SeqsUpTo({b \in BoxChoices : Fits(b.x, b.y, b.w, b.h, frame)}, MaxDetections)

\* an exception reaches the except clause of the running call: it returns None
Raised ==
    /\ pc' = "done"
    /\ returned' = << >>

(***************************************************************************)
(* AdvancedTreeMeasurer.calculate_dimensions, statement by statement.      *)
(***************************************************************************)
CallCalculateDimensions ==
    /\ call = "none"
    /\ call' = "adv"
    /\ pc' = "load"
    /\ UNCHANGED <<others, objects, locals, returned, steps>>

\* lines 280-288
LoadImage ==
    /\ call = "adv" /\ pc = "load"
    /\ \E decoded \in Optional({Frame(s) : s \in Shapes}) :
          /\ image' = decoded
          /\ IF decoded = << >>
             THEN Raised
             ELSE pc' = "metadata" /\ UNCHANGED returned
    /\ steps' = steps \cup {"load"}
    /\ UNCHANGED <<others, objects, call, metadata, focal_length_px, tree_contour, ref_objects, methods,
                   best, divided, corrected, clipped, result>>

\* lines 290-291
GetMetadata ==
    /\ call = "adv" /\ pc = "metadata"
    /\ \E exif \in ExifBlocks : metadata' = get_metadata(exif)
    /\ pc' = "segment"
    /\ steps' = steps \cup {"metadata"}
    /\ UNCHANGED <<others, objects, call, image, focal_length_px, tree_contour, ref_objects, methods,
                   best, divided, corrected, clipped, result, returned>>

\* segmentation whose failure is only logged: the call goes on to rendering
SegmentTree_LoggedOnly ==
    /\ call = "adv" /\ pc = "segment"
    /\ \E contours \in ContoursIn(image[1]) :
          /\ tree_contour' = segment_tree(contours)
          /\ pc' = IF tree_contour' = << >> THEN "visualize" ELSE "scale"
    /\ steps' = steps \cup {"segment"}
    /\ UNCHANGED <<others, objects, call, image, metadata, focal_length_px, ref_objects,
                   methods, best, divided, corrected, clipped, result, returned>>

\* lines 293-298
SegmentTree ==
    /\ call = "adv" /\ pc = "segment"
    /\ \E contours \in ContoursIn(image[1]) :
          /\ tree_contour' = segment_tree(contours)
          /\ IF tree_contour' = << >>
             THEN Raised
             ELSE pc' = "scale" /\ UNCHANGED returned
    /\ steps' = steps \cup {"segment"}
    /\ UNCHANGED <<others, objects, call, image, metadata, focal_length_px, ref_objects, methods,
                   best, divided, corrected, clipped, result>>

\* lines 300-303 and calculate_pixels_per_meter, given what the cascades report
CalculatePixelsPerMeter ==
    /\ call = "adv" /\ pc = "scale"
    /\ \E reported \in ReportsIn(image[1]) :
          /\ ref_objects' = detect_reference_objects(measurer, reported)
          /\ methods' = Methods(measurer, image[1], tree_contour, metadata, ref_objects')
          /\ best' = <<SelectBest(methods')>>
    /\ pc' = "resolve"
    /\ steps' = steps \cup {"scale"}
    /\ UNCHANGED <<others, objects, call, image, metadata, focal_length_px, tree_contour, divided, corrected,
                   clipped, result, returned>>

\* the same statements with the final validation before the perspective
\* correction
ResolveDimensions_ClampFirst ==
    /\ call = "adv" /\ pc = "resolve"
    /\ divided' = <<Divided(tree_contour[1], best[1].px_per_m)>>
    /\ clipped' = <<Clipped(measurer, divided'[1])>>
    /\ corrected' = <<Corrected(clipped'[1], metadata)>>
    /\ result' = <<PreparedResult(corrected'[1], best[1], tree_contour[1])>>
    /\ pc' = "visualize"
    /\ steps' = steps \cup {"resolve"}
    /\ UNCHANGED <<others, objects, call, image, metadata, focal_length_px, tree_contour, ref_objects,
                   methods, best, returned>>

\* the same statements in a measurer that learns its height limit from the
\* trees it has measured
ResolveDimensions_Adaptive ==
    /\ call = "adv" /\ pc = "resolve"
    /\ divided' = <<Divided(tree_contour[1], best[1].px_per_m)>>
    /\ corrected' = <<Corrected(divided'[1], metadata)>>
    /\ clipped' = <<Clipped(measurer, corrected'[1])>>
    /\ result' = <<PreparedResult(clipped'[1], best[1], tree_contour[1])>>
    /\ measurer' = [measurer EXCEPT !.max_tree_height = clipped'[1].height_m]
    /\ pc' = "visualize"
    /\ steps' = steps \cup {"resolve"}
    /\ UNCHANGED <<others, tree_calculator, call, image, metadata, focal_length_px, tree_contour,
                   ref_objects, methods, best, returned>>

\* lines 305-326: division, perspective correction, final validation, output
ResolveDimensions ==
    /\ call = "adv" /\ pc = "resolve"
    /\ divided' = <<Divided(tree_contour[1], best[1].px_per_m)>>
    /\ corrected' = <<Corrected(divided'[1], metadata)>>
    /\ clipped' = <<Clipped(measurer, corrected'[1])>>
    /\ result' = <<PreparedResult(clipped'[1], best[1], tree_contour[1])>>
    /\ pc' = "visualize"
    /\ steps' = steps \cup {"resolve"}
    /\ UNCHANGED <<others, objects, call, image, metadata, focal_length_px, tree_contour, ref_objects,
                   methods, best, returned>>

\* lines 332-333 and visualize_results: drawing and cv2.imwrite may raise
VisualizeResults ==
    /\ call = "adv" /\ pc = "visualize"
    /\ image' = <<Annotated(image[1])>>
    /\ steps' = steps \cup {"render"}
    /\ \E raises \in BOOLEAN :
          IF raises THEN Raised ELSE pc' = "return" /\ UNCHANGED returned
    /\ UNCHANGED <<others, objects, call, metadata, focal_length_px, tree_contour, ref_objects, methods,
                   best, divided, corrected, clipped, result>>

\* line 335
ReturnResult ==
    /\ call = "adv" /\ pc = "return"
    /\ returned' = result
    /\ pc' = "done"
    /\ UNCHANGED <<others, objects, call, locals, steps>>

(***************************************************************************)
(* image_processing.calculate_tree_dimensions and                          *)
(* TreeDimensionCalculator.calculate_tree_dimensions, statement by         *)
(* statement.  (None, None) is << >>.                                      *)
(***************************************************************************)
CallCalculateTreeDimensions ==
    /\ call = "none"
    /\ call' = "tdc"
    /\ pc' = "load"
    /\ UNCHANGED <<others, objects, locals, returned, steps>>

\* lines 142-145
TreeLoadImage ==
    /\ call = "tdc" /\ pc = "load"
    /\ \E decoded \in Optional({Frame(s) : s \in Shapes}) :
          /\ image' = decoded
          /\ IF decoded = << >>
             THEN pc' = "done" /\ returned' = << >>
             ELSE pc' = "metadata" /\ UNCHANGED returned
    /\ steps' = steps \cup {"load"}
    /\ UNCHANGED <<others, objects, call, metadata, focal_length_px, tree_contour, ref_objects,
                   methods, best, divided, corrected, clipped, result>>

\* lines 147-151
TreeGetMetadata ==
    /\ call = "tdc" /\ pc = "metadata"
    /\ \E exif \in ExifBlocks :
          LET f == calculate_focal_length_pixels(get_image_metadata(exif), image[1].width)
          IN  /\ metadata' = get_image_metadata(exif)
              /\ IF f.raised
                 THEN Raised /\ UNCHANGED focal_length_px
                 ELSE /\ focal_length_px' = <<f.value>>
                      /\ pc' = "segment"
                      /\ UNCHANGED returned
    /\ steps' = steps \cup {"metadata"}
    /\ UNCHANGED <<others, objects, call, image, tree_contour, ref_objects, methods, best,
                   divided, corrected, clipped, result>>

\* lines 153-159
TreeSegment ==
    /\ call = "tdc" /\ pc = "segment"
    /\ \E contours \in ContoursIn(image[1]) :
          /\ tree_contour' = improved_tree_segmentation(contours)
          /\ IF tree_contour' = << >>
             THEN pc' = "done" /\ returned' = << >>
             ELSE pc' = "scale" /\ UNCHANGED returned
    /\ steps' = steps \cup {"segment"}
    /\ UNCHANGED <<others, objects, call, image, metadata, focal_length_px, ref_objects,
                   methods, best, divided, corrected, clipped, result>>

\* lines 161-178
TreeScaleEstimate ==
    /\ call = "tdc" /\ pc = "scale"
    /\ \E reported \in ReportsIn(image[1]) :
          LET reference == detect_reference_object(tree_calculator, reported)
              scale == TreeScale(reference, metadata, focal_length_px[1],
                                 tree_contour[1].h, image[1].height)
          IN  /\ ref_objects' = reference
              /\ IF scale.raised
                 THEN Raised /\ UNCHANGED best
                 ELSE /\ best' = <<scale.value>>
                      /\ pc' = "resolve"
                      /\ UNCHANGED returned
    /\ steps' = steps \cup {"scale"}
    /\ UNCHANGED <<others, objects, call, image, metadata, focal_length_px, tree_contour,
                   methods, divided, corrected, clipped, result>>

\* lines 180-191
TreeResolveDimensions ==
    /\ call = "tdc" /\ pc = "resolve"
    /\ divided' = <<Divided(tree_contour[1], best[1].px_per_m)>>
    /\ corrected' = <<TreeCorrected(divided'[1], metadata)>>
    /\ clipped' = <<TreeClipped(corrected'[1])>>
    /\ pc' = "visualize"
    /\ steps' = steps \cup {"resolve"}
    /\ UNCHANGED <<others, objects, call, image, metadata, focal_length_px, tree_contour,
                   ref_objects, methods, best, result, returned>>

\* lines 193-203: drawing and cv2.imwrite may raise
TreeDrawAndSave ==
    /\ call = "tdc" /\ pc = "visualize"
    /\ image' = <<Annotated(image[1])>>
    /\ steps' = steps \cup {"render"}
    /\ \E raises \in BOOLEAN :
          IF raises THEN Raised ELSE pc' = "return" /\ UNCHANGED returned
    /\ UNCHANGED <<others, objects, call, metadata, focal_length_px, tree_contour, ref_objects,
                   methods, best, divided, corrected, clipped, result>>

\* line 209
TreeReturn ==
    /\ call = "tdc" /\ pc = "return"
    /\ returned' = clipped
    /\ pc' = "done"
    /\ UNCHANGED <<others, objects, call, locals, steps>>

\* the caller goes on to its next image: the call's locals are gone
NextImage ==
    /\ pc = "done"
    /\ call' = "none"
    /\ pc' = "idle"
    /\ image' = << >>
    /\ metadata' = EmptyMetadata
    /\ focal_length_px' = << >>
    /\ tree_contour' = << >>
    /\ ref_objects' = << >>
    /\ methods' = << >>
    /\ best' = << >>
    /\ divided' = << >>
    /\ corrected' = << >>
    /\ clipped' = << >>
    /\ result' = << >>
    /\ returned' = << >>
    /\ steps' = {}
    /\ UNCHANGED <<others, objects>>

Next ==
    \/ CallCalculateDimensions
    \/ LoadImage
    \/ GetMetadata
    \/ SegmentTree
    \/ CalculatePixelsPerMeter
    \/ ResolveDimensions
    \/ VisualizeResults
    \/ ReturnResult
    \/ CallCalculateTreeDimensions
    \/ TreeLoadImage
    \/ TreeGetMetadata
    \/ TreeSegment
    \/ TreeScaleEstimate
    \/ TreeResolveDimensions
    \/ TreeDrawAndSave
    \/ TreeReturn
    \/ NextImage

Spec == Init /\ [][Next]_vars

(***************************************************************************)
(* The functions of the pipelines exercised on their own, on inputs the    *)
(* pipeline runs above do not reach: every combination of missing cascade  *)
(* files, EXIF blocks with GPS and focal-plane tags, files PIL cannot open,*)
(* image paths, repeated calls on one measurer.                            *)
(***************************************************************************)
CascadeFiles == {"cars.xml", "fullbody.xml", "bicycle.xml", "bench.xml"}

UnitsInit ==
    /\ \E installed \in SUBSET CascadeFiles :
          /\ measurer = NewMeasurer(installed)
          /\ tree_calculator = NewTreeCalculator(installed)
    /\ NoCall
    /\ NoUnit
    /\ NoRun

\* os.path.splitext: the extension starts at the last dot of the last path
\* component, unless only dots precede it there
LastIndexOf(path, ch) ==
    LET found == {i \in 1..Len(path) : path[i] = ch}
    IN  IF found = {} THEN 0 ELSE CHOOSE i \in found : \A j \in found : j <= i

splitext(path) ==
    LET sepIndex == LastIndexOf(path, "/")
        dotIndex == LastIndexOf(path, ".")
    IN  IF dotIndex > sepIndex /\ \E i \in (sepIndex + 1)..(dotIndex - 1) : path[i] # "."
        THEN <<SubSeq(path, 1, dotIndex - 1), SubSeq(path, dotIndex, Len(path))>>
        ELSE <<path, << >>>>

Analyzed == <<"_", "a", "n", "a", "l", "y", "z", "e", "d">>

Jpg == <<".", "j", "p", "g">>

\* the path visualize_results and calculate_tree_dimensions write to
output_path(image_path) == splitext(image_path)[1] \o Analyzed \o Jpg

\* image paths, character by character
ImagePaths ==
    { <<"t", ".", "j", "p", "g">>,
      <<"t", ".", "p", "n", "g">>,
      <<"d", "/", "t", ".", "j", "p", "e", "g">>,
      <<"d", ".", "d", "/", "t">>,
      <<"t", ".", "x", ".", "J", "P", "G">>,
      <<".", "t">>,
      <<"t">> \o Analyzed \o Jpg }

\* the arguments calculate_pixels_per_meter is called again with
ScaleInputs ==
    { [image |-> Frame(shape), tree_contour |-> contour, metadata |-> get_metadata(exif),
       reported |-> reported] :
        shape \in {<<1500, 1000>>},
        contour \in {<<Contour(100, 50, 500, 1000, 300000, 400000)>>},
        exif \in {Exif(<< >>, << >>), Exif(<<Rational(4, 1)>>, << >>)},
        reported \in {r \in SeqsUpTo(BoxChoices, MaxDetections) : Len(r) <= 1} }

Exercise(name, input, output) ==
    /\ unit' = name
    /\ unit_in' = input
    /\ unit_out' = output

CallGetMetadata ==
    /\ unit = "none"
    /\ \E file \in ImageFiles : Exercise("get_metadata", file, get_metadata_of(file))
    /\ UNCHANGED <<objects, call, pc, locals, returned, steps, remembered, run>>

CallGetImageMetadata ==
    /\ unit = "none"
    /\ \E file \in ImageFiles :
          Exercise("get_image_metadata", file, get_image_metadata_of(file))
    /\ UNCHANGED <<objects, call, pc, locals, returned, steps, remembered, run>>

\* geolocation.get_location_from_image, lines 96-98
CallGetGpsCoordinates ==
    /\ unit = "none"
    /\ \E file \in ImageFiles :
          Exercise("get_gps_coordinates", file, get_gps_coordinates(get_exif_data(file)))
    /\ UNCHANGED <<objects, call, pc, locals, returned, steps, remembered, run>>

CallCalculateFocalLengthPixels ==
    /\ unit = "none"
    /\ \E exif \in FocalPlaneBlocks \cup {Exif(f, << >>) : f \in Optional(FocalLengthTags)},
          shape \in Shapes :
          Exercise("calculate_focal_length_pixels",
                   [metadata |-> get_image_metadata(exif), image_width |-> shape[2]],
                   calculate_focal_length_pixels(get_image_metadata(exif), shape[2]))
    /\ UNCHANGED <<objects, call, pc, locals, returned, steps, remembered, run>>

\* car boxes whose aspect ratio is exactly 0.7 and 1.3 times the expected
\* 1.8 / 1.5 (as floats too: 42 / 50 == 0.7 * (1.8 / 1.5))
BoundaryBoxes == {Box("car", 400, 400, 42, 50), Box("car", 400, 400, 78, 50)}

CallDetectReferenceObjects ==
    /\ unit = "none"
    /\ \E reported \in SeqsUpTo(BoxChoices \cup BoundaryBoxes, MaxDetections) :
          Exercise("detect_reference_objects", reported,
                   detect_reference_objects(measurer, reported))
    /\ UNCHANGED <<objects, call, pc, locals, returned, steps, remembered, run>>

CallOutputPath ==
    /\ unit = "none"
    /\ \E image_path \in ImagePaths :
          Exercise("output_path", image_path, output_path(image_path))
    /\ UNCHANGED <<objects, call, pc, locals, returned, steps, remembered, run>>

\* a call of calculate_pixels_per_meter that leaves its measurer without the
\* detectors it used
CallCalculatePixelsPerMeter_Stateful ==
    /\ unit \in {"none", "calculate_pixels_per_meter"}
    /\ \E input \in ScaleInputs :
          /\ Exercise("calculate_pixels_per_meter", input,
                      calculate_pixels_per_meter(measurer, input.image, input.tree_contour,
                                                 input.metadata, input.reported))
          /\ \E keep \in BOOLEAN :
                remembered' =
                    IF remembered = << >>
                    THEN IF keep THEN <<[input |-> input, output |-> unit_out', later |-> 0]>>
                         ELSE << >>
                    ELSE <<[remembered[1] EXCEPT !.later = IF @ < 2 THEN @ + 1 ELSE @]>>
    /\ measurer' = [measurer EXCEPT !.reference_objects =
                        [i \in 1..Len(@) |-> [@[i] EXCEPT !.detector = FALSE]]]
    /\ UNCHANGED <<tree_calculator, call, pc, locals, returned, steps, run>>

\* calculate_pixels_per_meter called again and again on one measurer; one of
\* the earlier calls is remembered with what it returned and with the number
\* of calls made since (counted up to 2)
CallCalculatePixelsPerMeter ==
    /\ unit \in {"none", "calculate_pixels_per_meter"}
    /\ \E input \in ScaleInputs :
          /\ Exercise("calculate_pixels_per_meter", input,
                      calculate_pixels_per_meter(measurer, input.image, input.tree_contour,
                                                 input.metadata, input.reported))
          /\ \E keep \in BOOLEAN :
                remembered' =
                    IF remembered = << >>
                    THEN IF keep THEN <<[input |-> input, output |-> unit_out', later |-> 0]>>
                         ELSE << >>
                    ELSE <<[remembered[1] EXCEPT !.later = IF @ < 2 THEN @ + 1 ELSE @]>>
    /\ UNCHANGED <<objects, call, pc, locals, returned, steps, run>>

\* the dimensions both classes are asked to correct
CorrectionInputs ==
    { [height_m |-> d[1], width_m |-> d[2], orientation |-> o] :
        d \in {<<Num(10), Num(5)>>, <<R(33, 2), Num(4)>>}, o \in OrientationTags }

\* the same dimensions and orientation handed to
\* AdvancedTreeMeasurer.apply_perspective_correction and to
\* TreeDimensionCalculator.apply_perspective_correction
CallApplyPerspectiveCorrection ==
    /\ unit = "none"
    /\ \E input \in CorrectionInputs :
          Exercise("apply_perspective_correction", input,
                   [advanced |-> apply_perspective_correction(
                                     input.height_m, input.width_m, input.orientation),
                    tree_calculator |-> tree_apply_perspective_correction(
                                     input.height_m, input.width_m, input.orientation)])
    /\ UNCHANGED <<objects, call, pc, locals, returned, steps, remembered, run>>

\* image_processing.calculate_dimensions_with_reference, lines 236-261: the
\* scale factor from the largest car contour, else from the largest skin
\* contour, else from the image height
scale_factor(img, car_contours, skin_contours) ==
    IF car_contours # << >>
    THEN FDiv(R(18, 10), Num(MaxByArea(car_contours, 2, car_contours[1]).w))
    ELSE IF skin_contours # << >>
    THEN FDiv(R(17, 10), Num(MaxByArea(skin_contours, 2, skin_contours[1]).h))
    ELSE FDiv(FMul(Num(img.height), R(7, 10)), Num(15))

\* lines 264-265: height_m and width_m of the largest edge contour's box
ScaledByReference(contours, factor) ==
    LET largest == MaxByArea(contours, 2, contours[1])
    IN  <<FMul(Num(largest.h), factor), FMul(Num(largest.w), factor)>>

\* lines 267-276: the aspect-ratio adjustment and the bounds
AdjustedAndBounded(contours, scaled) ==
    LET largest == MaxByArea(contours, 2, contours[1])
        aspect_ratio == FDiv(Num(largest.w), Num(largest.h))
        height_m == IF FLt(R(5, 10), aspect_ratio) THEN FMul(scaled[1], R(8, 10))
                    ELSE IF FLt(aspect_ratio, R(3, 10)) THEN FMul(scaled[1], R(12, 10))
                    ELSE scaled[1]
    IN  <<PyMax(Num(1), PyMin(Num(20), height_m)),
          PyMax(R(5, 10), PyMin(Num(10), scaled[2]))>>

\* calculate_dimensions_with_reference, given the contours the edge map, the
\* car mask and the skin mask produce
calculate_dimensions_with_reference(img, contours, car_contours, skin_contours) ==
    IF contours = << >> THEN <<Num(0), Num(0)>>
    ELSE AdjustedAndBounded(contours,
             ScaledByReference(contours, scale_factor(img, car_contours, skin_contours)))

\* edge contours: boxes 70% of an image height tall, and smaller ones
EdgeContours ==
    { Contour(100, 50, 500, 1050, 300000, 400000),
      Contour(100, 50, 900, 1680, 900000, 1000000),
      Contour(5, 5, 300, 600, 150000, 200000),
      Contour(5, 5, 100, 600, 50000, 60000) }

CarContours == {Contour(700, 900, 180, 60, 9000, 10000)}

SkinContours == {Contour(800, 700, 40, 600, 20000, 24000),
                 Contour(800, 700, 20, 170, 3000, 3400)}

ReferenceInputs ==
    { [img |-> Frame(shape), contours |-> contours, car_contours |-> cars,
       skin_contours |-> skin] :
        shape \in Shapes,
        contours \in SeqsUpTo(EdgeContours, MaxContours),
        cars \in SeqsUpTo(CarContours, 1),
        skin \in SeqsUpTo(SkinContours, 1) }

CallCalculateDimensionsWithReference ==
    /\ unit = "none"
    /\ \E input \in ReferenceInputs :
          Exercise("calculate_dimensions_with_reference", input,
                   [scale_factor |-> scale_factor(input.img, input.car_contours,
                                                  input.skin_contours),
                    scaled |-> IF input.contours = << >> THEN << >>
                               ELSE ScaledByReference(input.contours,
                                        scale_factor(input.img, input.car_contours,
                                                     input.skin_contours)),
                    returned |-> calculate_dimensions_with_reference(
                                     input.img, input.contours, input.car_contours,
                                     input.skin_contours)])
    /\ UNCHANGED <<objects, call, pc, locals, returned, steps, remembered, run>>

\* the function returned; the next one can be exercised
UnitReturn ==
    /\ unit # "none"
    /\ unit' = "none"
    /\ unit_in' = << >>
    /\ unit_out' = << >>
    /\ remembered' = << >>
    /\ UNCHANGED <<objects, call, pc, locals, returned, steps, run>>

UnitsNext ==
    \/ CallGetMetadata
    \/ CallGetImageMetadata
    \/ CallGetGpsCoordinates
    \/ CallCalculateFocalLengthPixels
    \/ CallDetectReferenceObjects
    \/ CallOutputPath
    \/ CallCalculatePixelsPerMeter
    \/ CallApplyPerspectiveCorrection
    \/ CallCalculateDimensionsWithReference
    \/ UnitReturn

SpecUnits == UnitsInit /\ [][UnitsNext]_vars

(***************************************************************************)
(* driver_script: one run of main() over the image directory, with the     *)
(* tree_analysis table as earlier runs left it.                            *)
(***************************************************************************)
\* the images get_all_images finds, in the order of os.walk
Listing == <<"tree_images/a.jpg", "tree_images/b.png", "tree_images/c.jpg">>

ListedImages == SubSeq(Listing, 1, MaxImages)

\* points in time: modification times of the files, the processed_date of the
\* rows earlier runs left, datetime.now() of this run
Times == [old_file |-> 1, cached |-> 2, new_file |-> 3, now |-> 4]

\* a cell of a row: a number, or the string "NO DATA"
Data(x) == [data |-> TRUE, value |-> x]

NoData == [data |-> FALSE, value |-> NaN]

Row(tree_type, height_m, width_m, location, confidence, processed_date) ==
    [tree_type |-> tree_type, height_m |-> height_m, width_m |-> width_m,
     latitude |-> location[1], longitude |-> location[2],
     confidence |-> confidence, processed_date |-> processed_date]

CachedRow == Row("Oak", Data(Num(10)), Data(Num(5)), <<NoData, NoData>>, Num(90), Times.cached)

DriverInit ==
    /\ measurer = NewMeasurer({})
    /\ tree_calculator = NewTreeCalculator({})
    /\ NoCall
    /\ NoUnit
    /\ run_pc = "idle"
    /\ use_cache = FALSE
    /\ image_files \in [{ListedImages[i] : i \in 1..Len(ListedImages)} ->
                          {Times.old_file, Times.new_file}]
    /\ \E cached \in SUBSET {ListedImages[i] : i \in 1..Len(ListedImages)} :
          db = [image_path \in cached |-> CachedRow]
    /\ todo = << >>
    /\ processed = << >>

\* TreeDatabase.image_needs_processing
image_needs_processing(rows, directory, image_path, force_refresh) ==
    IF image_path \notin DOMAIN directory THEN TRUE
    ELSE IF force_refresh THEN TRUE
    ELSE IF image_path \notin DOMAIN rows THEN TRUE
    ELSE directory[image_path] > rows[image_path].processed_date

\* TreeDatabase.add_result: INSERT OR REPLACE with processed_date = now
add_result(rows, image_path, row) ==
    [q \in DOMAIN rows \cup {image_path} |-> IF q = image_path THEN row ELSE rows[q]]

\* image_processing.calculate_tree_dimensions(image_path), lines 42-56, on the
\* listed images: (height_m, width_m) of the tree the calculator measures;
\* << >> stands for (None, None), returned for an image without a tree
calculate_tree_dimensions(image_path) ==
    IF image_path = "tree_images/b.png" THEN << >> ELSE <<R(25, 2), R(21, 5)>>

\* lines 124-131: image_processing.calculate_tree_dimensions takes one
\* argument and is called with three, so the call raises TypeError
DriverDimensions == <<NoData, NoData>>

\* main(), lines 142-178: the option is parsed, the images are listed,
\* process_tree_images starts
Main ==
    /\ run_pc = "idle"
    /\ \E option \in BOOLEAN : use_cache' = option
    /\ todo' = ListedImages
    /\ run_pc' = "loop"
    /\ UNCHANGED <<objects, call, pc, locals, returned, steps, units, image_files, db, processed>>

\* one iteration of the loop of process_tree_images, lines 95-136
ProcessNextImage ==
    /\ run_pc = "loop" /\ todo # << >>
    /\ LET image_path == Head(todo)
       IN  IF ~use_cache /\ ~image_needs_processing(db, image_files, image_path, TRUE)
           THEN UNCHANGED <<db, processed>>
           ELSE \E location \in {<<NoData, NoData>>, <<Data(R(-271, 8)), Data(R(756, 5))>>},
                   species \in {<<"Oak", Num(90)>>, <<"NO DATA", Num(0)>>} :
                   /\ db' = add_result(db, image_path,
                                Row(species[1], DriverDimensions[1], DriverDimensions[2],
                                    location, species[2], Times.now))
                   /\ processed' = Append(processed, image_path)
    /\ todo' = Tail(todo)
    /\ UNCHANGED <<objects, call, pc, locals, returned, steps, units, run_pc, use_cache, image_files>>

\* lines 179-183: the loop is over, the web interface starts
RunWebUi ==
    /\ run_pc = "loop" /\ todo = << >>
    /\ run_pc' = "done"
    /\ UNCHANGED <<objects, call, pc, locals, returned, steps, units, use_cache, image_files, db,
                   todo, processed>>

DriverNext ==
    \/ Main
    \/ ProcessNextImage
    \/ RunWebUi

SpecDriver == DriverInit /\ [][DriverNext]_vars

(***************************************************************************)
(* Properties.                                                             *)
(***************************************************************************)
Succeeded == pc = "done" /\ returned # << >>

Scaled == call = "adv" /\ "scale" \in steps

InRange(x, lo, hi) == FLe(lo, x) /\ FLe(x, hi)

\* C1: every successful result of either pipeline has 1.0 <= height_m <= 60.0
\* and 0.3 <= width_m <= 15.0.
C1_ClampInvariant ==
    Succeeded =>
        /\ InRange(returned[1].height_m, Num(1), Num(60))
        /\ InRange(returned[1].width_m, R(3, 10), Num(15))

\* the method family of a candidate, and the priority order of the families
Family(candidate) ==
    IF candidate.method = "Camera geometry" THEN "camera-geometry"
    ELSE IF candidate.method = "Depth estimation" THEN "depth-estimation"
    ELSE IF candidate.method = "Fallback estimation" THEN "fallback"
    ELSE "reference-object"

Priority(family) ==
    CASE family = "reference-object" -> 1
      [] family = "depth-estimation" -> 2
      [] family = "camera-geometry" -> 3
      [] family = "fallback" -> 4

\* C2: the estimate returned by calculate_pixels_per_meter is one of the
\* candidates, no candidate is more confident, and among the candidates as
\* confident as it none belongs to a family of higher priority.
C2_BestIsMostConfident ==
    Scaled =>
        /\ \E i \in 1..Len(methods) : methods[i] = best[1]
        /\ \A i \in 1..Len(methods) :
              /\ ~FLt(best[1].confidence, methods[i].confidence)
              /\ methods[i].confidence = best[1].confidence
                    => Priority(Family(best[1])) <= Priority(Family(methods[i]))

\* C2 witness: two candidates tie for the highest confidence and a third,
\* less confident one exists.
C2_Witness ==
    /\ Scaled
    /\ \E i, j \in 1..Len(methods) :
          /\ i # j
          /\ methods[i].confidence = best[1].confidence
          /\ methods[j].confidence = best[1].confidence
    /\ \E k \in 1..Len(methods) : FLt(methods[k].confidence, best[1].confidence)
    /\ Len(methods) >= 4

\* C3: with no reference object, no FocalLength in Metadata and no depth
\* model, the estimate is the fallback with confidence exactly 0.4 and
\* pixels-per-meter = image height / 15.
C3_FallbackGuarantee ==
    (Scaled /\ ref_objects = << >> /\ "FocalLength" \notin DOMAIN metadata
            /\ ~measurer.depth_est_model) =>
        /\ best[1].method = "Fallback estimation"
        /\ best[1].confidence = R(4, 10)
        /\ FMul(best[1].px_per_m, Num(15)) = Num(image[1].height)

\* C3 witness: such a frame, with a contour, has been scaled.
C3_Witness ==
    /\ Scaled /\ ref_objects = << >> /\ "FocalLength" \notin DOMAIN metadata
    /\ tree_contour # << >>
    /\ "Orientation" \in DOMAIN metadata
    /\ best[1].px_per_m = Num(100)

\* C4: calculate_pixels_per_meter always returns one estimate, with
\* pixels-per-meter > 0 and confidence in [0, 1]; a zero, negative or NaN
\* candidate is never the one returned.
C4_EstimateIsPositive ==
    Scaled =>
        /\ Len(best) = 1
        /\ FLt(Num(0), best[1].px_per_m)
        /\ InRange(best[1].confidence, Num(0), Num(1))

\* C5: the candidate built for each detected reference object has
\* pixels-per-meter = (height_px/real_height + width_px/real_width)/2, which
\* for a car is (height_px/1.5 + width_px/1.8)/2 = (6*height_px + 5*width_px)/18
\* (about 108.9 for 200x160).
C5_ReferenceScale ==
    Scaled =>
        \A i \in 1..Len(ref_objects) :
            LET obj == ref_objects[i]
                ppm == methods[i].px_per_m
            IN  /\ FMul(FMul(ppm, Num(2)), FMul(obj.real_height, obj.real_width))
                      = FAdd(FMul(Num(obj.height_px), obj.real_width),
                             FMul(Num(obj.width_px), obj.real_height))
                /\ obj.type = "car"
                      => ppm.n * 18 = ppm.d * (6 * obj.height_px + 5 * obj.width_px)
                /\ (obj.type = "car" /\ obj.width_px = 200 /\ obj.height_px = 160)
                      => FLt(R(10885, 100), ppm) /\ FLt(ppm, R(10895, 100))

\* C5 witness: a car of 200x160 px was detected and its candidate built.
C5_Witness ==
    /\ Scaled
    /\ \E i \in 1..Len(ref_objects) :
          /\ ref_objects[i].type = "car"
          /\ ref_objects[i].width_px = 200 /\ ref_objects[i].height_px = 160
          /\ methods[i].px_per_m = R(980, 9)

\* C6: a reference-object candidate has confidence 0.9 for car or person and
\* 0.7 for bicycle or bench; with a detected car and no FocalLength the
\* selected estimate is a car candidate with confidence 0.9.
C6_ReferenceConfidence ==
    Scaled =>
        /\ \A i \in 1..Len(ref_objects) :
              /\ ref_objects[i].type \in {"car", "person"}
                    => methods[i].confidence = R(9, 10)
              /\ ref_objects[i].type \in {"bicycle", "bench"}
                    => methods[i].confidence = R(7, 10)
        /\ ((\E i \in 1..Len(ref_objects) : ref_objects[i].type = "car")
              /\ "FocalLength" \notin DOMAIN metadata)
              => /\ best[1].method = "Reference (car)"
                 /\ best[1].confidence = R(9, 10)
                 /\ \E i \in 1..Len(ref_objects) :
                       ref_objects[i].type = "car" /\ methods[i] = best[1]

\* C6 witness: the scenario frame (1500 px high, 1000 px wide) with a car of
\* 200x160 px and a person detected and no FocalLength.
C6_Witness ==
    /\ Scaled
    /\ image[1].height = 1500 /\ image[1].width = 1000
    /\ "FocalLength" \notin DOMAIN metadata
    /\ Len(ref_objects) = 2
    /\ ref_objects[1].type = "car" /\ ref_objects[1].width_px = 200
    /\ ref_objects[2].type = "person"
    /\ best[1].method = "Reference (car)"

Resolved == pc \in {"visualize", "return", "done"} /\ corrected # << >>

\* C7: AdvancedTreeMeasurer.apply_perspective_correction leaves (height,
\* width) unchanged for orientation 1, gives (0.95 height, 1.05 width) for 3
\* and (1.1 height, 0.9 width) for 6 and 8; (10, 5) under 6 becomes (11, 4.5).
C7_PerspectiveFactors ==
    (Resolved /\ call = "adv" /\ "Orientation" \in DOMAIN metadata) =>
        LET o == metadata["Orientation"]
            d == divided[1]
            c == corrected[1]
        IN  /\ o = 1 => c = d
            /\ o = 3 => /\ FMul(c.height_m, Num(100)) = FMul(d.height_m, Num(95))
                        /\ FMul(c.width_m, Num(100)) = FMul(d.width_m, Num(105))
            /\ o \in {6, 8} => /\ FMul(c.height_m, Num(10)) = FMul(d.height_m, Num(11))
                               /\ FMul(c.width_m, Num(10)) = FMul(d.width_m, Num(9))
            /\ (o = 6 /\ d.height_m = Num(10) /\ d.width_m = Num(5))
                  => c.height_m = Num(11) /\ c.width_m = R(45, 10)

\* C7 witness: orientation 6 was applied to (10, 5).
C7_Witness ==
    /\ Resolved /\ call = "adv"
    /\ "Orientation" \in DOMAIN metadata /\ metadata["Orientation"] = 6
    /\ divided[1].height_m = Num(10) /\ divided[1].width_m = Num(5)
    /\ corrected[1].height_m = Num(11)

\* C8: without an Orientation field the values handed to the clamp are
\* exactly h / pixels_per_meter and w / pixels_per_meter, in both pipelines.
C8_NoOrientationIdentity ==
    (Resolved /\ "Orientation" \notin DOMAIN metadata) =>
        LET ppm == best[1].px_per_m
            c == corrected[1]
        IN  IF IsNaN(ppm)
            THEN IsNaN(c.height_m) /\ IsNaN(c.width_m)
            ELSE /\ FMul(c.height_m, ppm) = Num(tree_contour[1].h)
                 /\ FMul(c.width_m, ppm) = Num(tree_contour[1].w)

\* C8 witness: a frame with a FocalLength but no Orientation was resolved.
C8_Witness ==
    /\ Resolved /\ call = "adv"
    /\ DOMAIN metadata = {"FocalLength"}
    /\ ~IsNaN(corrected[1].height_m)
    /\ clipped[1] # corrected[1]

\* C9: calculate_dimensions ends either with None or with a complete record
\* (height_m, width_m, method, confidence, bounding box), never with a
\* partial one; a frame that cannot be decoded gives None and no stage after
\* loading runs for it.
C9_CompleteOrNone ==
    (call = "adv" /\ pc = "done") =>
        /\ \/ returned = << >>
           \/ /\ Len(returned) = 1
              /\ {"height_m", "width_m", "method", "confidence", "bounding_box"}
                    \subseteq DOMAIN returned[1]
              /\ DOMAIN returned[1].bounding_box = {"x", "y", "width", "height"}
        /\ image = << >> =>
              /\ returned = << >>
              /\ steps = {"load"}
              /\ tree_contour = << >> /\ best = << >> /\ result = << >>

\* C9 witness: a call on an undecodable image has ended.
C9_Witness ==
    /\ call = "adv" /\ pc = "done"
    /\ image = << >> /\ "load" \in steps
    /\ returned = << >>

\* C10: when segmentation finds no contour the call ends with None /
\* (None, None): no height or width is computed and neither scale estimation
\* nor rendering runs.
C10_NoContourIsFailure ==
    (pc = "done" /\ "segment" \in steps /\ tree_contour = << >>) =>
        /\ returned = << >>
        /\ best = << >> /\ divided = << >> /\ clipped = << >> /\ result = << >>
        /\ steps \cap {"scale", "resolve", "render"} = {}
        /\ ~image[1].annotated

\* C10 witness: a decoded frame was segmented and no contour was found.
C10_Witness ==
    /\ pc = "done" /\ call = "adv"
    /\ image # << >> /\ "segment" \in steps /\ tree_contour = << >>

\* C11: a failure of the Result Renderer (an exception while drawing or
\* writing the audit image) does not change the outcome of
\* calculate_dimensions: the DimensionResult it computed is what the caller
\* receives.
C11_RenderFailureHarmless ==
    (call = "adv" /\ pc = "done" /\ "render" \in steps) => returned = result

\* C12: metadata problems are never fatal: a call of either pipeline whose
\* frame was decoded ends without dimensions only when segmentation found no
\* tree, whatever the EXIF block held.
C12_MetadataNeverFatal ==
    (pc = "done" /\ image # << >> /\ clipped = << >>) =>
        ("segment" \in steps /\ tree_contour = << >>)

\* min(max(x, lo), hi) as the specification writes the final clamp
Clamped(x, lo, hi) == IF FLt(x, lo) THEN lo ELSE IF FLt(hi, x) THEN hi ELSE x

\* C17: the final clamp is exactly height [1.0, 60.0] and width [0.3, 15.0]:
\* the height returned is min(max(h, 1.0), 60.0) and the width returned is
\* min(max(w, 0.3), 15.0) of the corrected h and w (up to the rounding to two
\* decimals of calculate_dimensions), so values in range come back unchanged.
C17_ExactClamp ==
    (Succeeded /\ corrected # << >>) =>
        LET h == Clamped(corrected[1].height_m, Num(1), Num(60))
            w == Clamped(corrected[1].width_m, R(3, 10), Num(15))
        IN  IF call = "adv"
            THEN returned[1].height_m = Round2(h) /\ returned[1].width_m = Round2(w)
            ELSE returned[1].height_m = h /\ returned[1].width_m = w

\* a GPS coordinate value that is there but is not three numbers
Unparsable(value) ==
    /\ value # << >>
    /\ value[1] # << >>
    /\ (Len(value[1]) # 3 \/ \E i \in 1..Len(value[1]) : ~value[1][i].numeric)

FocalParseFails(exif) ==
    "FocalLength" \in DOMAIN exif /\ ~exif["FocalLength"].numeric

GpsParseFails(exif) ==
    /\ "GPSInfo" \in DOMAIN exif
    /\ \/ ~exif["GPSInfo"].dict
       \/ Unparsable(exif["GPSInfo"].lat)
       \/ Unparsable(exif["GPSInfo"].lon)

SignedDegrees(value, ref, negative) ==
    IF value = << >> THEN << >>
    ELSE IF value[1] = << >> THEN << >>
    ELSE LET degrees == FAdd(FAdd(ToFloat(value[1][1]), FDiv(ToFloat(value[1][2]), Num(60))),
                             FDiv(ToFloat(value[1][3]), Num(3600)))
         IN  IF ref = <<negative>> THEN <<FNeg(degrees)>> ELSE <<degrees>>

\* C19: the GPS record get_metadata puts into the metadata holds signed
\* decimal degrees: degrees + minutes/60 + seconds/3600, the latitude negated
\* for the southern hemisphere and the longitude for the western one.
C19_SignedDecimalDegrees ==
    (/\ unit = "get_metadata"
     /\ "GPS" \in DOMAIN unit_out.value
     /\ unit_out.value["GPS"] # << >>) =>
        LET gps_info == unit_in.exif["GPSInfo"]
            gps == unit_out.value["GPS"][1]
        IN  /\ gps.latitude = SignedDegrees(gps_info.lat, gps_info.lat_ref, "S")
            /\ gps.longitude = SignedDegrees(gps_info.lon, gps_info.lon_ref, "W")

\* C14: a missing detector asset is never fatal: whichever cascades are absent
\* (detector None), detect_reference_objects skips exactly those types, still
\* returns the detections of the remaining types, and returns the empty list
\* when all are absent.
C14_MissingDetectorSkipped ==
    unit = "detect_reference_objects" =>
        LET registry == measurer.reference_objects
            Entries == 1..Len(registry)
        IN  /\ \A j \in 1..Len(unit_out) :
                  \E i \in Entries : registry[i].type = unit_out[j].type /\ registry[i].detector
            /\ \A i \in Entries, k \in 1..Len(unit_in) :
                  ( /\ registry[i].detector
                    /\ unit_in[k].type = registry[i].type
                    /\ ValidAspect(registry[i], unit_in[k]) ) =>
                  \E j \in 1..Len(unit_out) :
                      /\ unit_out[j].type = unit_in[k].type
                      /\ unit_out[j].x = unit_in[k].x /\ unit_out[j].y = unit_in[k].y
                      /\ unit_out[j].width_px = unit_in[k].w
                      /\ unit_out[j].height_px = unit_in[k].h
            /\ (\A i \in Entries : ~registry[i].detector) => unit_out = << >>

C14_Witness ==
    /\ unit = "detect_reference_objects"
    /\ \E i \in 1..Len(measurer.reference_objects), k \in 1..Len(unit_in) :
          /\ ~measurer.reference_objects[i].detector
          /\ unit_in[k].type = measurer.reference_objects[i].type
    /\ Len(unit_out) = 1
    /\ Len(unit_in) = 2

C18_AuditPath ==
    unit = "output_path" =>
        /\ unit_out = splitext(unit_in)[1] \o Analyzed \o splitext(unit_in)[2]
        /\ unit_out # unit_in

CachedAndUnmodified(image_path) ==
    /\ image_path \in DOMAIN db
    /\ image_files[image_path] <= db[image_path].processed_date

\* C20: with --use-cache, an image that has a cached analysis and an
\* unmodified file is not processed again by process_tree_images (nothing is
\* computed for it and its record is not rewritten); without the option every
\* listed image is processed.
C20_CacheHonoured ==
    [][(run_pc = "loop" /\ todo # << >>) =>
          /\ (use_cache /\ CachedAndUnmodified(Head(todo))) =>
                (db' = db /\ processed' = processed)
          /\ ~use_cache => processed' = Append(processed, Head(todo))]_vars

\* C21: when the green-hue mask yields no contour, edge-detection-based
\* segmentation is attempted before the failure is reported: a call that ends
\* at segmentation without a contour has tried both strategies.
C21_EdgeFallbackAttempted ==
    (pc = "done" /\ image # << >> /\ "segment" \in steps /\ tree_contour = << >>) =>
        "edges" \in steps

\* C22: in calculate_dimensions the clamp is applied on every successful call,
\* after the division by the scale and after any perspective correction, and
\* nothing changes height_m and width_m after it: what is returned is the
\* clamped value of the corrected quotient (rounded to two decimals for the
\* output record).
C22_ClampIsLast ==
    (Succeeded /\ call = "adv") =>
        LET quotient == Divided(tree_contour[1], best[1].px_per_m)
            validated == Clipped(measurer, Corrected(quotient, metadata))
        IN  /\ returned[1].height_m = Round2(validated.height_m)
            /\ returned[1].width_m = Round2(validated.width_m)

C22_Witness ==
    /\ Succeeded /\ call = "adv"
    /\ "Orientation" \in DOMAIN metadata
    /\ metadata["Orientation"] \in {3, 6, 8}
    /\ corrected[1] # divided[1]
    /\ FLt(measurer.max_tree_width, corrected[1].width_m)
    /\ returned[1].width_m = measurer.max_tree_width

\* C23: the camera-geometry candidate has confidence 0.8 when two or more
\* independent distance estimates are available for the frame (at least two
\* detected reference objects give the second one) and 0.6 when there is one.
C23_CameraConfidence ==
    Scaled =>
        \A i \in 1..Len(methods) :
            methods[i].method = "Camera geometry" =>
                methods[i].confidence =
                    IF Len(ref_objects) >= 2 THEN R(8, 10) ELSE R(6, 10)

\* C24: the focal length in pixels is image_width * focal_length_mm /
\* sensor_width_mm with sensor_width_mm = 6.17 when EXIF has no sensor width
\* and focal_length_mm = 4.2 when EXIF has no focal length; the
\* camera-geometry method uses the defaults instead of being skipped.
C24_FocalLengthDefaults ==
    /\ Scaled => \E i \in 1..Len(methods) : methods[i].method = "Camera geometry"
    /\ (call = "tdc" /\ focal_length_px # << >>) =>
          LET focal_length_mm ==
                  IF "FocalLength" \in DOMAIN metadata THEN ToFloat(metadata["FocalLength"])
                  ELSE R(42, 10)
          IN  focal_length_px[1] =
                  FDiv(FMul(Num(image[1].width), focal_length_mm), R(617, 100))

\* C25: detect_reference_objects rejects a reported candidate exactly when its
\* aspect ratio w/h deviates from the expected real_width/real_height by more
\* than 30%: every candidate with 0.7*expected <= w/h <= 1.3*expected is kept,
\* the two boundary values included, and every other one is dropped.
C25_AspectWithinThirtyPercent ==
    unit = "detect_reference_objects" =>
        \A i \in 1..Len(measurer.reference_objects), k \in 1..Len(unit_in) :
            LET params == measurer.reference_objects[i]
                b == unit_in[k]
                expected == FDiv(params.width, params.height)
                within == /\ FLe(FMul(R(7, 10), expected), R(b.w, b.h))
                          /\ FLe(R(b.w, b.h), FMul(R(13, 10), expected))
                kept == \E j \in 1..Len(unit_out) :
                            /\ unit_out[j].type = b.type
                            /\ unit_out[j].x = b.x /\ unit_out[j].y = b.y
                            /\ unit_out[j].width_px = b.w /\ unit_out[j].height_px = b.h
            IN  (params.detector /\ params.type = b.type) => (kept <=> within)

\* C26: the Result Renderer leaves the loaded frame unchanged: the box and the
\* text are drawn onto a copy, so the frame calculate_dimensions loaded is the
\* same after visualize_results as before.
C26_FrameUnchanged ==
    (call \in {"adv", "tdc"} /\ "render" \in steps) => ~image[1].annotated

\* C27: whenever calculate_pixels_per_meter produces a camera-geometry
\* candidate, its pixels-per-meter is ((w + h)/2)/15 for the tree's bounding
\* box (w, h), whatever the focal length and the sensor width.
C27_CameraScaleIgnoresCamera ==
    Scaled =>
        \A i \in 1..Len(methods) :
            methods[i].method = "Camera geometry" =>
                methods[i].px_per_m =
                    FDiv(R(tree_contour[1].w + tree_contour[1].h, 2), Num(15))


\* C28: for every orientation code and every (height, width) the two
\* perspective corrections, AdvancedTreeMeasurer.apply_perspective_correction
\* and TreeDimensionCalculator.apply_perspective_correction, return the same
\* pair
C28_CorrectionsAgree ==
    unit = "apply_perspective_correction" =>
        unit_out.advanced = unit_out.tree_calculator

\* C29: the scale factor of calculate_dimensions_with_reference is meters per
\* pixel on every path: with no reference object a tree whose box is 70% of
\* the image height tall measures 15 m before the adjustment and the bounds,
\* as a tree as tall in pixels as the detected person measures 1.7 m
C29_ScaleFactorUnit ==
    (unit = "calculate_dimensions_with_reference" /\ unit_in.contours # << >>
     /\ unit_in.car_contours = << >>) =>
        LET tree == MaxByArea(unit_in.contours, 2, unit_in.contours[1])
        IN  /\ (unit_in.skin_contours = << >> /\ 10 * tree.h = 7 * unit_in.img.height)
                  => unit_out.scaled[1] = Num(15)
            /\ (unit_in.skin_contours # << >>
                /\ tree.h = MaxByArea(unit_in.skin_contours, 2, unit_in.skin_contours[1]).h)
                  => unit_out.scaled[1] = R(17, 10)

\* C30: for every image process_tree_images processed and whose dimension
\* calculation succeeds, the stored record carries the numeric height_m and
\* width_m calculate_tree_dimensions computes; "NO DATA" is stored for the
\* dimensions only when the calculation fails on that image
C30_DimensionsStored ==
    \A i \in 1..Len(processed) :
        LET image_path == processed[i]
            dimensions == calculate_tree_dimensions(image_path)
        IN  /\ dimensions # << >> =>
                  /\ db[image_path].height_m = Data(dimensions[1])
                  /\ db[image_path].width_m = Data(dimensions[2])
            /\ (db[image_path].height_m = NoData \/ db[image_path].width_m = NoData) =>
                  dimensions = << >>


====
